---- MODULE Spec2Model ----
(***************************************************************************)
(* pathctl (src/src/main.rs): an interactive terminal editor for the       *)
(* entries of PATH.  The model covers main's setup and teardown of the     *)
(* terminal, run_app's event loop (the list, the ListState selection, the  *)
(* input mode and the input buffer), the helpers handle_input_mode and     *)
(* insert_path_at_selection, and main's generation of the shell command    *)
(* from the list run_app returns.                                          *)
(*                                                                         *)
(* Text (String, PathBuf, OsString) is a sequence of one-character         *)
(* strings.  Option<T> is a sequence of length at most one.  Indices are   *)
(* 0-based as in the source; Vec positions are shifted by one where a      *)
(* sequence is indexed.                                                    *)
(***************************************************************************)
EXTENDS Integers, Sequences, FiniteSets, TLC

VARIABLES
    paths,            \* run_app: `paths`, the Vec<PathBuf> being edited
    selected,         \* run_app: `list_state.selected()`, an Option<usize>
    input_mode,       \* run_app: `input_mode`
    input,            \* run_app: `input`, the text being composed
    key,              \* the outcome of the latest poll/read of the loop
    pc,               \* where the process is, see the steps of main below
    res,              \* main: `res`, None while run_app is running
    shell_env,        \* the value env::var("SHELL") gave, None until it is read
    output,           \* the lines written to standard output, None until written
    overflow_checks,  \* build profile: TRUE panics on integer overflow, FALSE wraps
    episode,          \* history: the latest insert-mode episode, see StartEpisode
    terminal,         \* the terminal: raw mode enabled, alternate screen entered
    stderr,           \* the lines main wrote to standard error, in order
    loop_at,          \* run_app's loop: at "draw" (line 64) or at "poll" (line 66)
    rendered          \* what terminal.draw was given in this iteration, else None

vars == <<paths, selected, input_mode, input, key, pc, res, shell_env, output,
          overflow_checks, episode, terminal, stderr, loop_at, rendered>>

---------------------------------------------------------------------------
(* Bounds of the model *)

\* the longest list the model lets an insertion build
MaxLen == 3
\* the longest input buffer the model lets the operator type
MaxBuf == 2
\* the largest out-of-range selection followed on an empty list (release build)
MaxSel == 2
\* the longest list built by the direct calls of insert_path_at_selection
MaxInsertLen == 5

---------------------------------------------------------------------------
(* Option<T> *)

None == <<>>
Some(x) == <<x>>

\* usize::MAX.  The real value is 2^64 - 1; it is only ever compared with
\* indices below MaxSel, so the largest integer TLC represents stands for it.
UsizeMax == 2147483647

---------------------------------------------------------------------------
(* Key events *)

KeyChar(c) == [code |-> "Char", ch |-> c, modifiers |-> "NONE"]
CtrlChar(c) == [code |-> "Char", ch |-> c, modifiers |-> "CONTROL"]
SpecialKey(code) == [code |-> code, ch |-> "", modifiers |-> "NONE"]

\* what an iteration that dispatched no key leaves in `key`
NoKey(why) == [code |-> why, ch |-> "", modifiers |-> "NONE"]

\* characters with a binding in Normal mode
BoundChars == {"q", "a", "b", "d", "k", "j"}
\* characters the operator types while composing: "q" is a quit key of Normal
\* mode, " " is whitespace, ":" is the PATH separator
TypedChars == {"q", " ", ":"}

\* lines 71-75: the quit test of Normal mode
IsQuitKey(k) ==
    \/ (k.code = "Char" /\ k.ch = "q")
    \/ k.code = "Esc"
    \/ (k.code = "Char" /\ k.ch = "c" /\ k.modifiers = "CONTROL")

---------------------------------------------------------------------------
(* Environment *)

U == <<"u">>
B == <<"b">>

\* values of env::var("PATH"): unset, or a ':'-separated list
PathEnvValues == {None, Some(U), Some(U \o <<":">> \o B)}

\* the paths for which Path::exists is true; the empty path never exists
ExistingPaths == {<<"q">>, <<"c", ":">>}

exists(p) == p \in ExistingPaths

\* values of env::var("SHELL"): unset, or a path given by its components
ShellEnvValues ==
    {None,
     Some(<<"usr", "bin", "fish">>),
     Some(<<"bin", "bash">>),
     Some(<<"usr", "bin", "zsh">>),
     Some(<<"opt", "fish", "bin", "sh">>),
     Some(<<"opt", "fish", "..">>),
     Some(<<>>)}

---------------------------------------------------------------------------
(* Text and Vec helpers *)

\* char::is_whitespace, for the characters of the model
is_whitespace(c) == c = " "

RECURSIVE trim_start(_)
trim_start(s) ==
    IF s = <<>> THEN s
    ELSE IF is_whitespace(Head(s)) THEN trim_start(Tail(s)) ELSE s

RECURSIVE trim_end(_)
trim_end(s) ==
    IF s = <<>> THEN s
    ELSE IF is_whitespace(s[Len(s)]) THEN trim_end(SubSeq(s, 1, Len(s) - 1)) ELSE s

\* mutant of trim: only the leading whitespace is removed
trim_leading_only(s) == trim_start(s)

\* str::trim (line 170)
trim(s) == trim_end(trim_start(s))

\* mutant of pop: the whole text is removed
pop_clears(s) == <<>>

\* String::pop (line 185): removes the last character, if any
pop(s) == IF s = <<>> THEN s ELSE SubSeq(s, 1, Len(s) - 1)

\* mutant of remove: the entries after index i go too
remove_from(v, i) == SubSeq(v, 1, i)

\* Vec::remove(i), for i < len (line 92)
remove(v, i) == SubSeq(v, 1, i) \o SubSeq(v, i + 2, Len(v))

\* Vec::insert(i, x), for i <= len (line 216)
insert(v, i, x) == SubSeq(v, 1, i) \o <<x>> \o SubSeq(v, i + 1, Len(v))

\* usize::saturating_sub (line 94)
saturating_sub(a, b) == IF a >= b THEN a - b ELSE 0

min(a, b) == IF a <= b THEN a ELSE b

\* env::split_paths on Unix (line 325): the pieces between the ':'
RECURSIVE split_paths(_)
split_paths(s) ==
    IF \A i \in 1..Len(s) : s[i] # ":" THEN <<s>>
    ELSE LET i == CHOOSE j \in 1..Len(s) :
                      s[j] = ":" /\ \A h \in 1..(j - 1) : s[h] # ":"
         IN <<SubSeq(s, 1, i - 1)>> \o split_paths(SubSeq(s, i + 1, Len(s)))

\* get_path_entries (lines 317-330), not Windows
get_path_entries(path_var) ==
    IF path_var # None THEN split_paths(path_var[1]) ELSE <<>>

---------------------------------------------------------------------------
(* The list operations of run_app and insert_path_at_selection *)

\* lines 106-115: the selection the Up arm computes
select_up(sel) ==
    IF sel = None THEN Some(0)
    ELSE IF sel[1] > 0 THEN Some(sel[1] - 1) ELSE Some(0)

\* mutant of select_down: Down on the last entry wraps to the first
select_down_wraps(ps, sel, checks) ==
    IF sel = None THEN [selected |-> Some(0), panic |-> FALSE]
    ELSE IF Len(ps) = 0 /\ checks THEN [selected |-> sel, panic |-> TRUE]
    ELSE LET last == IF Len(ps) = 0 THEN UsizeMax ELSE Len(ps) - 1
         IN [selected |-> IF sel[1] < last THEN Some(sel[1] + 1) ELSE Some(0),
             panic |-> FALSE]

\* lines 119-128: the selection the Down arm computes.  `paths.len() - 1`
\* is evaluated only when something is selected; on an empty list it
\* overflows: a panic with overflow checks, usize::MAX without.
select_down(ps, sel, checks) ==
    IF sel = None THEN [selected |-> Some(0), panic |-> FALSE]
    ELSE IF Len(ps) = 0 /\ checks THEN [selected |-> sel, panic |-> TRUE]
    ELSE LET last == IF Len(ps) = 0 THEN UsizeMax ELSE Len(ps) - 1
         IN [selected |-> IF sel[1] < last THEN Some(sel[1] + 1) ELSE Some(last),
             panic |-> FALSE]

\* lines 91-103: the 'd' arm.  Vec::remove panics when the index is not
\* below the length.
delete_selected(ps, sel) ==
    IF sel = None THEN [paths |-> ps, selected |-> sel, panic |-> FALSE]
    ELSE IF sel[1] >= Len(ps) THEN [paths |-> ps, selected |-> sel, panic |-> TRUE]
    ELSE LET rest == remove(ps, sel[1])
             new_index == IF sel[1] >= Len(rest)
                          THEN saturating_sub(Len(rest), 1)
                          ELSE sel[1]
         IN [paths |-> rest,
             selected |-> IF rest = <<>> THEN None ELSE Some(new_index),
             panic |-> FALSE]

\* mutant of insert_path_at_selection: After inserts at the selected index
insert_path_at_selection_no_offset(ps, sel, new_path, insertion_point) ==
    LET selected_index == IF sel = None THEN 0 ELSE sel[1]
        insert_index == min(selected_index, Len(ps))
    IN [paths |-> insert(ps, insert_index, new_path),
        selected |-> Some(insert_index)]

\* mutant of insert_path_at_selection: the selection is left where it was
insert_path_at_selection_stale(ps, sel, new_path, insertion_point) ==
    LET selected_index == IF sel = None THEN 0 ELSE sel[1]
        wanted == IF insertion_point = "Before"
                  THEN selected_index
                  ELSE selected_index + 1
        insert_index == min(wanted, Len(ps))
    IN [paths |-> insert(ps, insert_index, new_path),
        selected |-> Some(selected_index)]

\* lines 204-218
insert_path_at_selection(ps, sel, new_path, insertion_point) ==
    LET selected_index == IF sel = None THEN 0 ELSE sel[1]
        wanted == IF insertion_point = "Before"
                  THEN selected_index
                  ELSE selected_index + 1
        insert_index == min(wanted, Len(ps))
    IN [paths |-> insert(ps, insert_index, new_path),
        selected |-> Some(insert_index)]

\* lines 134-153: the insertion point run_app passes for each insert mode
insertion_point_of(mode) == IF mode = "InsertAfter" THEN "After" ELSE "Before"

---------------------------------------------------------------------------
(* Command generation *)

\* env::join_paths on Unix (line 333): Err (None) when an entry holds ':'
RECURSIVE joined(_)
joined(ps) ==
    IF ps = <<>> THEN <<>>
    ELSE IF Len(ps) = 1 THEN ps[1]
    ELSE ps[1] \o <<":">> \o joined(Tail(ps))

\* mutant of join_paths: an entry holding the separator is joined as it is
join_paths_unchecked(ps) ==
    Some(joined(ps))

join_paths(ps) ==
    IF \E i \in 1..Len(ps) : \E j \in 1..Len(ps[i]) : ps[i][j] = ":"
    THEN None
    ELSE Some(joined(ps))

\* mutant of detect_shell: any component named fish makes the shell fish
detect_shell_any_component(shell_var) ==
    IF shell_var = None THEN None
    ELSE LET comps == shell_var[1]
         IN IF \E i \in 1..Len(comps) : comps[i] = "fish" THEN Some("fish")
            ELSE IF comps = <<>> \/ comps[Len(comps)] = ".." THEN None
            ELSE Some(comps[Len(comps)])

\* lines 355-363: the final component of SHELL; Path::file_name gives None
\* for a path with no components and for one ending in ".."
detect_shell(shell_var) ==
    IF shell_var = None THEN None
    ELSE LET comps == shell_var[1]
         IN IF comps = <<>> \/ comps[Len(comps)] = ".." THEN None
            ELSE Some(comps[Len(comps)])

SetPrefix == <<"s", "e", "t", " ", "-", "x", " ", "P", "A", "T", "H", " ">>
ExportPrefix == <<"e", "x", "p", "o", "r", "t", " ", "P", "A", "T", "H", "=", "\"">>

\* mutant of format_command: the fish arm is missing
format_command_posix_only(shell, new_path_str) ==
    ExportPrefix \o new_path_str \o <<"\"">>

\* lines 338-341: the statement for the joined list
format_command(shell, new_path_str) ==
    IF shell = Some("fish")
    THEN SetPrefix \o new_path_str
    ELSE ExportPrefix \o new_path_str \o <<"\"">>

---------------------------------------------------------------------------
(* The keys the model's operator presses *)

\* "c" and Enter have no binding in Normal mode
NormalKeys ==
    {KeyChar(c) : c \in BoundChars \cup {"c"}}
        \cup {CtrlChar("c")}
        \cup {SpecialKey(c) : c \in {"Esc", "Enter", "Up", "Down"}}

\* Tab has no binding in the insert modes
InsertKeys ==
    {KeyChar(c) : c \in TypedChars}
        \cup {CtrlChar("c")}
        \cup {SpecialKey(c) : c \in {"Esc", "Enter", "Backspace", "Tab"}}

IsUpKey(k) == k.code = "Up" \/ (k.code = "Char" /\ k.ch = "k")
IsDownKey(k) == k.code = "Down" \/ (k.code = "Char" /\ k.ch = "j")

\* lines 79-131: the keys that reach the `_ => {}` arm of Normal mode
IsUnboundKey(k) ==
    /\ ~IsQuitKey(k)
    /\ ~(k.code = "Char" /\ k.ch \in {"a", "b", "d"})
    /\ ~IsUpKey(k)
    /\ ~IsDownKey(k)

\* an event is polled (line 66) only after the draw of line 64
InLoop(mode_set) == pc = "loop" /\ loop_at = "poll" /\ input_mode \in mode_set

\* line 64: what the closure of terminal.draw hands to draw
Frame ==
    [paths |-> paths, selected |-> selected, input_mode |-> input_mode,
     input |-> input]

\* the end of the loop's body: control is back at line 64, nothing drawn yet
IterationEnds ==
    /\ loop_at' = "draw"
    /\ rendered' = None

InsertModes == {"InsertAfter", "InsertBefore"}

---------------------------------------------------------------------------
(* History of the latest insert-mode episode: the list and the selection   *)
(* at the 'a' or 'b' that opened it, the mode entered, whether the buffer  *)
(* was edited, the buffer as it stood at the Enter that inserted it, and   *)
(* how the episode stands: "composing", "cancelled" (Esc), "inserted" or   *)
(* "discarded" (Enter), "undone" ('d' right after an insertion).  Any      *)
(* other key of Normal mode, and the end of the loop, forgets it.          *)

StartEpisode(mode) ==
    Some([paths |-> paths, selected |-> selected, mode |-> mode,
          edited |-> FALSE, raw |-> <<>>, outcome |-> "composing"])

Edited == Some([episode[1] EXCEPT !.edited = TRUE])

Ended(how) ==
    Some([episode[1] EXCEPT !.raw = IF how = "inserted" THEN input ELSE <<>>,
                            !.outcome = how])

AfterDelete ==
    IF episode # None /\ episode[1].outcome = "inserted"
    THEN Some([episode[1] EXCEPT !.outcome = "undone"])
    ELSE None

---------------------------------------------------------------------------
(* Initial state: the process at the entry of main, line 21 *)

Init ==
    /\ paths = <<>>
    /\ selected = None
    /\ input_mode = "Normal"
    /\ input = <<>>
    /\ key = NoKey("Start")
    /\ pc = "main"
    /\ res = None
    /\ shell_env = None
    /\ output = None
    /\ overflow_checks \in BOOLEAN
    /\ episode = None
    /\ terminal = [raw |-> FALSE, alt |-> FALSE]
    /\ stderr = <<>>
    /\ loop_at = "draw"
    /\ rendered = None

---------------------------------------------------------------------------
(* Terminal setup: main lines 23-27.  A `?` that meets an error returns    *)
(* it from main at once: pc "failed".                                      *)

run_app_locals == <<paths, selected, input_mode, input, key, episode, loop_at,
                    rendered>>

\* line 23
EnableRawMode ==
    /\ pc = "main"
    /\ \E ok \in BOOLEAN :
        IF ok
        THEN /\ terminal' = [terminal EXCEPT !.raw = TRUE]
             /\ pc' = "raw"
        ELSE /\ pc' = "failed"
             /\ UNCHANGED terminal
    /\ UNCHANGED <<run_app_locals, res, shell_env, output, overflow_checks, stderr>>

\* line 25
EnterAlternateScreen ==
    /\ pc = "raw"
    /\ \E ok \in BOOLEAN :
        IF ok
        THEN /\ terminal' = [terminal EXCEPT !.alt = TRUE]
             /\ pc' = "alternate"
        ELSE /\ pc' = "failed"
             /\ UNCHANGED terminal
    /\ UNCHANGED <<run_app_locals, res, shell_env, output, overflow_checks, stderr>>

\* line 27
NewTerminal ==
    /\ pc = "alternate"
    /\ \E ok \in BOOLEAN : pc' = IF ok THEN "run_app" ELSE "failed"
    /\ UNCHANGED <<run_app_locals, res, shell_env, output, overflow_checks,
                   terminal, stderr>>

\* run_app lines 55-61: PATH is read and the first entry, if any, selected
RunAppStart ==
    /\ pc = "run_app"
    /\ \E path_var \in PathEnvValues : paths' = get_path_entries(path_var)
    /\ selected' = IF paths' # <<>> THEN Some(0) ELSE None
    /\ input_mode' = "Normal"
    /\ input' = <<>>
    /\ pc' = "loop"
    /\ UNCHANGED <<key, episode, loop_at, rendered, res, shell_env, output,
                   overflow_checks, terminal, stderr>>

---------------------------------------------------------------------------
(* Normal mode: run_app lines 69-133 *)

\* run_app's locals once it has returned: `paths` is moved into the result
\* and the others are dropped; the model gives them their initial values
LocalsDropped ==
    /\ paths' = <<>>
    /\ selected' = None
    /\ input_mode' = "Normal"
    /\ input' = <<>>
    /\ episode' = None

\* mutant of Quit: the list returned is read from PATH again
Quit_rereads ==
    /\ InLoop({"Normal"})
    /\ \E k \in NormalKeys :
        /\ IsQuitKey(k)
        /\ key' = k
    /\ pc' = "returned"
    /\ \E path_var \in PathEnvValues :
        res' = Some([tag |-> "Ok", paths |-> get_path_entries(path_var)])
    /\ LocalsDropped
    /\ IterationEnds
    /\ UNCHANGED <<shell_env, output, overflow_checks, terminal, stderr>>

\* lines 71-77: q, Esc or Ctrl-C returns the list
Quit ==
    /\ InLoop({"Normal"})
    /\ \E k \in NormalKeys :
        /\ IsQuitKey(k)
        /\ key' = k
    /\ pc' = "returned"
    /\ res' = Some([tag |-> "Ok", paths |-> paths])
    /\ LocalsDropped
    /\ IterationEnds
    /\ UNCHANGED <<shell_env, output, overflow_checks, terminal, stderr>>

\* lines 80-84
KeyA ==
    /\ InLoop({"Normal"})
    /\ key' = KeyChar("a")
    /\ input_mode' = "InsertAfter"
    /\ input' = <<>>
    /\ episode' = StartEpisode("InsertAfter")
    /\ IterationEnds
    /\ UNCHANGED <<paths, selected, pc, res, shell_env, output, overflow_checks, terminal, stderr>>

\* lines 85-89
KeyB ==
    /\ InLoop({"Normal"})
    /\ key' = KeyChar("b")
    /\ input_mode' = "InsertBefore"
    /\ input' = <<>>
    /\ episode' = StartEpisode("InsertBefore")
    /\ IterationEnds
    /\ UNCHANGED <<paths, selected, pc, res, shell_env, output, overflow_checks, terminal, stderr>>

\* lines 90-104
KeyD ==
    /\ InLoop({"Normal"})
    /\ key' = KeyChar("d")
    /\ LET r == delete_selected(paths, selected)
       IN /\ paths' = r.paths
          /\ selected' = r.selected
          /\ pc' = IF r.panic THEN "panicked" ELSE pc
    /\ episode' = AfterDelete
    /\ IterationEnds
    /\ UNCHANGED <<input_mode, input, res, shell_env, output, overflow_checks, terminal, stderr>>

\* lines 105-117
KeyUp ==
    /\ InLoop({"Normal"})
    /\ \E k \in NormalKeys :
        /\ IsUpKey(k)
        /\ key' = k
    /\ selected' = select_up(selected)
    /\ episode' = None
    /\ IterationEnds
    /\ UNCHANGED <<paths, input_mode, input, pc, res, shell_env, output,
                   overflow_checks, terminal, stderr>>

\* lines 118-130; on an empty list a release build lets the selection grow
\* without limit, which the model follows up to MaxSel
KeyDown ==
    /\ InLoop({"Normal"})
    /\ \E k \in NormalKeys :
        /\ IsDownKey(k)
        /\ key' = k
    /\ LET r == select_down(paths, selected, overflow_checks)
       IN /\ paths = <<>> => r.selected[1] <= MaxSel
          /\ selected' = r.selected
          /\ pc' = IF r.panic THEN "panicked" ELSE pc
    /\ episode' = None
    /\ IterationEnds
    /\ UNCHANGED <<paths, input_mode, input, res, shell_env, output,
                   overflow_checks, terminal, stderr>>

\* line 131
KeyUnbound ==
    /\ InLoop({"Normal"})
    /\ \E k \in NormalKeys :
        /\ IsUnboundKey(k)
        /\ key' = k
    /\ episode' = None
    /\ IterationEnds
    /\ UNCHANGED <<paths, selected, input_mode, input, pc, res, shell_env, output,
                   overflow_checks, terminal, stderr>>

---------------------------------------------------------------------------
(* Insert modes: handle_input_mode lines 160-189 *)

\* mutant of Commit: the buffer is not cleared
Commit_keeps_input ==
    /\ InLoop(InsertModes)
    /\ key' = SpecialKey("Enter")
    /\ LET new_path == trim(input)
           r == insert_path_at_selection(paths, selected, new_path,
                                         insertion_point_of(input_mode))
       IN IF exists(new_path)
          THEN /\ Len(paths) < MaxLen
               /\ paths' = r.paths
               /\ selected' = r.selected
               /\ episode' = Ended("inserted")
          ELSE /\ UNCHANGED <<paths, selected>>
               /\ episode' = Ended("discarded")
    /\ input_mode' = "Normal"
    /\ IterationEnds
    /\ UNCHANGED <<input, pc, res, shell_env, output, overflow_checks, terminal, stderr>>

\* lines 169-176; an insertion is followed while the list is below MaxLen
Commit ==
    /\ InLoop(InsertModes)
    /\ key' = SpecialKey("Enter")
    /\ LET new_path == trim(input)
           r == insert_path_at_selection(paths, selected, new_path,
                                         insertion_point_of(input_mode))
       IN IF exists(new_path)
          THEN /\ Len(paths) < MaxLen
               /\ paths' = r.paths
               /\ selected' = r.selected
               /\ episode' = Ended("inserted")
          ELSE /\ UNCHANGED <<paths, selected>>
               /\ episode' = Ended("discarded")
    /\ input' = <<>>
    /\ input_mode' = "Normal"
    /\ IterationEnds
    /\ UNCHANGED <<pc, res, shell_env, output, overflow_checks, terminal, stderr>>

\* mutant of Cancel: Esc falls through to the insertion of Enter
Cancel_inserts ==
    /\ InLoop(InsertModes)
    /\ key' = SpecialKey("Esc")
    /\ LET new_path == trim(input)
           r == insert_path_at_selection(paths, selected, new_path,
                                         insertion_point_of(input_mode))
       IN IF exists(new_path) /\ Len(paths) < MaxLen
          THEN paths' = r.paths /\ selected' = r.selected
          ELSE UNCHANGED <<paths, selected>>
    /\ input' = <<>>
    /\ input_mode' = "Normal"
    /\ episode' = Ended("cancelled")
    /\ IterationEnds
    /\ UNCHANGED <<pc, res, shell_env, output, overflow_checks, terminal, stderr>>

\* lines 177-180
Cancel ==
    /\ InLoop(InsertModes)
    /\ key' = SpecialKey("Esc")
    /\ input' = <<>>
    /\ input_mode' = "Normal"
    /\ episode' = Ended("cancelled")
    /\ IterationEnds
    /\ UNCHANGED <<paths, selected, pc, res, shell_env, output, overflow_checks, terminal, stderr>>

\* mutant of TypeChar: the quit test is made in the insert modes too
TypeChar_quits ==
    /\ InLoop(InsertModes)
    /\ Len(input) < MaxBuf
    /\ \E k \in InsertKeys :
        /\ k.code = "Char"
        /\ key' = k
        /\ IF IsQuitKey(k)
           THEN /\ pc' = "returned"
                /\ res' = Some([tag |-> "Ok", paths |-> paths])
                /\ LocalsDropped
           ELSE /\ input' = Append(input, k.ch)
                /\ episode' = Edited
                /\ UNCHANGED <<paths, selected, input_mode, pc, res>>
    /\ IterationEnds
    /\ UNCHANGED <<shell_env, output, overflow_checks, terminal, stderr>>

\* lines 181-183: any character, with or without modifiers, is pushed
TypeChar ==
    /\ InLoop(InsertModes)
    /\ Len(input) < MaxBuf
    /\ \E k \in InsertKeys :
        /\ k.code = "Char"
        /\ key' = k
        /\ input' = Append(input, k.ch)
    /\ episode' = Edited
    /\ IterationEnds
    /\ UNCHANGED <<paths, selected, input_mode, pc, res, shell_env, output,
                   overflow_checks, terminal, stderr>>

\* lines 184-186
Backspace ==
    /\ InLoop(InsertModes)
    /\ key' = SpecialKey("Backspace")
    /\ input' = pop(input)
    /\ episode' = Edited
    /\ IterationEnds
    /\ UNCHANGED <<paths, selected, input_mode, pc, res, shell_env, output,
                   overflow_checks, terminal, stderr>>

\* line 187
InsertUnbound ==
    /\ InLoop(InsertModes)
    /\ \E k \in InsertKeys :
        /\ k.code \notin {"Enter", "Esc", "Char", "Backspace"}
        /\ key' = k
    /\ IterationEnds
    /\ UNCHANGED <<paths, selected, input_mode, input, pc, res, shell_env, output,
                   overflow_checks, terminal, stderr, episode>>

---------------------------------------------------------------------------
(* The rest of the loop and of main *)

\* line 64: the frame is drawn from the current state
Draw ==
    /\ pc = "loop"
    /\ loop_at = "draw"
    /\ rendered' = Some(Frame)
    /\ loop_at' = "poll"
    /\ UNCHANGED <<paths, selected, input_mode, input, key, pc, res, shell_env,
                   output, overflow_checks, episode, terminal, stderr>>

\* mutant of NoKeyEvent: without a key the loop polls again, drawing nothing
NoKeyEvent_skips_draw ==
    /\ pc = "loop"
    /\ loop_at = "poll"
    /\ key' = NoKey("NoKey")
    /\ rendered' = None
    /\ UNCHANGED <<paths, selected, input_mode, input, pc, res, shell_env, output,
                   overflow_checks, terminal, stderr, episode, loop_at>>

\* lines 66-67: the poll times out, or the event read is not a key
NoKeyEvent ==
    /\ pc = "loop"
    /\ loop_at = "poll"
    /\ key' = NoKey("NoKey")
    /\ IterationEnds
    /\ UNCHANGED <<paths, selected, input_mode, input, pc, res, shell_env, output,
                   overflow_checks, terminal, stderr, episode>>

\* lines 64, 66, 67: draw, poll or read fails and `?` returns the error
IoError ==
    /\ pc = "loop"
    /\ key' = NoKey("IoError")
    /\ pc' = "returned"
    /\ res' = Some([tag |-> "Err", paths |-> <<>>])
    /\ LocalsDropped
    /\ IterationEnds
    /\ UNCHANGED <<shell_env, output, overflow_checks, terminal, stderr>>

\* lines 332-342
generate_shell_command(ps, shell_var) ==
    LET new_path_var == join_paths(ps)
    IN IF new_path_var = None THEN None
       ELSE Some(format_command(detect_shell(shell_var), new_path_var[1]))

\* line 33, reached whatever run_app returned
DisableRawMode ==
    /\ pc = "returned"
    /\ \E ok \in BOOLEAN :
        IF ok
        THEN /\ terminal' = [terminal EXCEPT !.raw = FALSE]
             /\ pc' = "cooked"
        ELSE /\ pc' = "failed"
             /\ UNCHANGED terminal
    /\ UNCHANGED <<run_app_locals, res, shell_env, output, overflow_checks, stderr>>

\* lines 34-38
LeaveAlternateScreen ==
    /\ pc = "cooked"
    /\ \E ok \in BOOLEAN :
        IF ok
        THEN /\ terminal' = [terminal EXCEPT !.alt = FALSE]
             /\ pc' = "left"
        ELSE /\ pc' = "failed"
             /\ UNCHANGED terminal
    /\ UNCHANGED <<run_app_locals, res, shell_env, output, overflow_checks, stderr>>

\* line 39
ShowCursor ==
    /\ pc = "left"
    /\ \E ok \in BOOLEAN : pc' = IF ok THEN "restored" ELSE "failed"
    /\ UNCHANGED <<run_app_locals, res, shell_env, output, overflow_checks,
                   terminal, stderr>>

\* mutant of PrintCommand: the command is printed before the teardown
PrintCommand_early ==
    /\ pc = "returned"
    /\ res # None /\ res[1].tag = "Ok"
    /\ \E shell_var \in ShellEnvValues :
        LET command == generate_shell_command(res[1].paths, shell_var)
        IN IF command = None
           THEN /\ pc' = "panicked"
                /\ UNCHANGED <<shell_env, output>>
           ELSE /\ pc' = "done"
                /\ shell_env' = Some(shell_var)
                /\ output' = Append(output, command[1])
    /\ UNCHANGED <<run_app_locals, res, overflow_checks, terminal, stderr>>

\* lines 42-45: the command for the returned list is printed; the `expect`
\* of line 333 panics before SHELL is read
PrintCommand ==
    /\ pc = "restored"
    /\ res # None /\ res[1].tag = "Ok"
    /\ \E shell_var \in ShellEnvValues :
        LET command == generate_shell_command(res[1].paths, shell_var)
        IN IF command = None
           THEN /\ pc' = "panicked"
                /\ UNCHANGED <<shell_env, output>>
           ELSE /\ pc' = "done"
                /\ shell_env' = Some(shell_var)
                /\ output' = Append(output, command[1])
    /\ UNCHANGED <<run_app_locals, res, overflow_checks, terminal, stderr>>

\* lines 46-48: the error is reported and nothing is printed to stdout
ReportError ==
    /\ pc = "restored"
    /\ res # None /\ res[1].tag = "Err"
    /\ pc' = "done"
    /\ stderr' = Append(stderr, "Error")
    /\ UNCHANGED <<run_app_locals, res, shell_env, output, overflow_checks,
                   terminal>>

\* the exit status of the process: main returned Ok(()), main returned an
\* error, or a thread panicked
ExitCode ==
    CASE pc = "done" -> Some(0)
      [] pc = "failed" -> Some(1)
      [] pc = "panicked" -> Some(101)
      [] OTHER -> None

Next ==
    \/ EnableRawMode
    \/ EnterAlternateScreen
    \/ NewTerminal
    \/ RunAppStart
    \/ Draw
    \/ Quit
    \/ KeyA
    \/ KeyB
    \/ KeyD
    \/ KeyUp
    \/ KeyDown
    \/ KeyUnbound
    \/ Commit
    \/ Cancel
    \/ TypeChar
    \/ Backspace
    \/ InsertUnbound
    \/ NoKeyEvent
    \/ IoError
    \/ DisableRawMode
    \/ LeaveAlternateScreen
    \/ ShowCursor
    \/ PrintCommand
    \/ ReportError

Spec == Init /\ [][Next]_vars

---------------------------------------------------------------------------
(* Direct calls of insert_path_at_selection, as test_insert_path_at_selection *)
(* makes them (lines 416-461).  A PathBuf is opaque to the function, so the *)
(* entries here are whole strings.                                          *)

\* lines 418-422
TestPaths == <<"/usr/bin", "/bin", "/usr/local/bin">>
\* lines 426 and 444
NewTestPaths == {"/custom/bin", "/another/bin"}
InsertionPoints == {"Before", "After"}

\* a prefix of the test's list, with a selection run_app can hold for it
InsertInit ==
    /\ \E n \in 0..Len(TestPaths) : paths = SubSeq(TestPaths, 1, n)
    /\ selected \in IF paths = <<>>
                    THEN {None} \cup {Some(i) : i \in 0..MaxSel}
                    ELSE {Some(i) : i \in 0..(Len(paths) - 1)}
    /\ input_mode = "Normal"
    /\ input = <<>>
    /\ key = NoKey("Start")
    /\ pc = "test"
    /\ res = None
    /\ shell_env = None
    /\ output = None
    /\ overflow_checks = TRUE
    /\ episode = None
    /\ terminal = [raw |-> FALSE, alt |-> FALSE]
    /\ stderr = <<>>
    /\ loop_at = "draw"
    /\ rendered = None

InsertCall(new_path, insertion_point) ==
    /\ pc = "test"
    /\ Len(paths) < MaxInsertLen
    /\ LET r == insert_path_at_selection(paths, selected, new_path, insertion_point)
       IN /\ paths' = r.paths
          /\ selected' = r.selected
    /\ UNCHANGED <<input_mode, input, key, pc, res, shell_env, output,
                   overflow_checks, terminal, stderr,
                   loop_at, rendered, episode>>

InsertNext ==
    \E new_path \in NewTestPaths : \E insertion_point \in InsertionPoints :
        InsertCall(new_path, insertion_point)

SpecInsert == InsertInit /\ [][InsertNext]_vars

---------------------------------------------------------------------------
(* Vocabulary of the properties *)

\* `new` is `old` with p put at 0-based index `at`, the rest in order
InsertedAt(old, new, at, p) ==
    /\ at <= Len(old)
    /\ Len(new) = Len(old) + 1
    /\ new[at + 1] = p
    /\ \A i \in 1..at : new[i] = old[i]
    /\ \A i \in (at + 1)..Len(old) : new[i + 1] = old[i]

\* `new` is `old` without the entry at 0-based index `at`, the rest in order
RemovedAt(old, new, at) ==
    /\ at < Len(old)
    /\ Len(new) = Len(old) - 1
    /\ \A i \in 1..at : new[i] = old[i]
    /\ \A i \in (at + 1)..Len(new) : new[i] = old[i + 1]

\* the index an insertion on `side` of selection `sel` goes to in `ps`
TargetIndex(ps, sel, side) ==
    LET s == IF sel = None THEN 0 ELSE sel[1]
        t == IF side = "Before" THEN s ELSE s + 1
    IN IF t > Len(ps) THEN Len(ps) ELSE t

\* t is s without its leading and trailing blanks
IsTrimOf(t, s) ==
    \E a \in 0..Len(s) : \E b \in 0..Len(s) :
        /\ a + b <= Len(s)
        /\ t = SubSeq(s, a + 1, Len(s) - b)
        /\ \A i \in 1..a : s[i] = " "
        /\ \A i \in (Len(s) - b + 1)..Len(s) : s[i] = " "
        /\ t # <<>> => (t[1] # " " /\ t[Len(t)] # " ")

\* the entries of ps in order with sep between neighbours
RECURSIVE Separated(_, _)
Separated(ps, sep) ==
    IF ps = <<>> THEN <<>>
    ELSE LET front == Separated(SubSeq(ps, 1, Len(ps) - 1), sep)
         IN IF Len(ps) = 1 THEN ps[1] ELSE front \o <<sep>> \o ps[Len(ps)]

ValidSelection ==
    IF paths = <<>> THEN selected = None
    ELSE selected # None /\ selected[1] \in 0..(Len(paths) - 1)

MoveStep == InLoop({"Normal"}) /\ (IsUpKey(key') \/ IsDownKey(key'))
DeleteStep == InLoop({"Normal"}) /\ key' = KeyChar("d")
EnterStep == InLoop(InsertModes) /\ key' = SpecialKey("Enter")

EpisodeIs(how) == episode # None /\ episode[1].outcome = how

---------------------------------------------------------------------------
(* The claims *)

\* C1: while the loop runs the selection is Some(i) with 0 <= i < len when
\* the list is non-empty and None when it is empty.
SelectionInvariant == pc = "loop" => ValidSelection

\* C2: in Normal mode with an empty list and no selection, Up/k and Down/j
\* leave the list empty and the selection None.
MoveOnEmptyIsNoOp ==
    [][(MoveStep /\ paths = <<>> /\ selected = None)
          => (paths' = <<>> /\ selected' = None)]_vars

\* C3: on a non-empty list Up at index 0 stays at 0, Down at index len-1
\* stays at len-1, at any other index Up lowers the selected index by one
\* and Down raises it by one; the list is unchanged and the loop goes on.
MoveSelectionClamps ==
    [][(MoveStep /\ paths # <<>> /\ selected # None /\ selected[1] < Len(paths))
          => /\ paths' = paths
             /\ pc' = "loop"
             /\ IsUpKey(key') =>
                    selected' = Some(IF selected[1] = 0 THEN 0 ELSE selected[1] - 1)
             /\ IsDownKey(key') =>
                    selected' = Some(IF selected[1] = Len(paths) - 1
                                     THEN Len(paths) - 1
                                     ELSE selected[1] + 1)]_vars

\* C3 witness: Down has been pressed on a list of two or more entries and the
\* selection is on the last one.
MoveSelectionClampsWitness ==
    /\ pc = "loop" /\ input_mode = "Normal"
    /\ IsDownKey(key)
    /\ Len(paths) >= 2
    /\ selected = Some(Len(paths) - 1)

\* C4: 'd' with a selection removes exactly the selected entry and selects
\* None if the list became empty, else the same index if still in range,
\* else the new last index; with no selection it does nothing.
DeleteSelectedContract ==
    [][DeleteStep
          => IF selected = None
             THEN paths' = paths /\ selected' = None /\ pc' = "loop"
             ELSE /\ pc' = "loop"
                  /\ RemovedAt(paths, paths', selected[1])
                  /\ selected' = IF paths' = <<>> THEN None
                                 ELSE IF selected[1] < Len(paths') THEN selected
                                 ELSE Some(Len(paths') - 1)]_vars

\* C5: insert_path_at_selection puts the new entry at index s (Before) or
\* s+1 (After), s the selected index or 0 with no selection, clamped to
\* [0, len]; the selection becomes that index and holds the new entry.  On
\* [/usr/bin, /bin, /usr/local/bin] with selection 1, Before puts
\* /custom/bin at 1 and a following After puts /another/bin at 2.
InsertsAtSelection ==
    [][\A p \in NewTestPaths : \A side \in InsertionPoints :
          InsertCall(p, side)
             => /\ InsertedAt(paths, paths', TargetIndex(paths, selected, side), p)
                /\ selected' = Some(TargetIndex(paths, selected, side))
                /\ paths'[selected'[1] + 1] = p
                /\ (paths = TestPaths /\ selected = Some(1) /\ side = "Before"
                        /\ p = "/custom/bin")
                      => /\ paths' = <<"/usr/bin", "/custom/bin", "/bin",
                                       "/usr/local/bin">>
                         /\ selected' = Some(1)
                /\ (paths = <<"/usr/bin", "/custom/bin", "/bin", "/usr/local/bin">>
                        /\ selected = Some(1) /\ side = "After"
                        /\ p = "/another/bin")
                      => /\ paths' = <<"/usr/bin", "/custom/bin", "/another/bin",
                                       "/bin", "/usr/local/bin">>
                         /\ selected' = Some(2)]_vars

\* C5 witness: the list and the selection the test ends with.
InsertsAtSelectionWitness ==
    /\ paths = <<"/usr/bin", "/custom/bin", "/another/bin", "/bin", "/usr/local/bin">>
    /\ selected = Some(2)

\* C6: right after an insertion followed at once by 'd', the list is the
\* list as it was before the insertion, and the loop goes on.
InsertDeleteRoundTrip ==
    EpisodeIs("undone") => (paths = episode[1].paths /\ pc = "loop")

\* C6 witness: an insertion into a non-empty list has been undone by 'd'.
InsertDeleteRoundTripWitness ==
    /\ EpisodeIs("undone")
    /\ pc = "loop"
    /\ paths # <<>>

\* C7: Enter in an insert mode trims the buffer; if the trimmed text exists
\* it is inserted on the mode's side of the selection and selected, else
\* list and selection are unchanged and the loop goes on; either way the
\* buffer is then empty and the mode Normal.
CommitTrimsProbesInserts ==
    [][EnterStep
          => \A i \in 1..(Len(input) + 1) : \A j \in 0..Len(input) :
                LET text == SubSeq(input, i, j)
                    side == IF input_mode = "InsertAfter" THEN "After" ELSE "Before"
                    at == TargetIndex(paths, selected, side)
                IN IsTrimOf(text, input)
                      => /\ input' = <<>>
                         /\ input_mode' = "Normal"
                         /\ pc' = "loop"
                         /\ IF text \in ExistingPaths
                            THEN /\ InsertedAt(paths, paths', at, text)
                                 /\ selected' = Some(at)
                            ELSE paths' = paths /\ selected' = selected]_vars

\* C7 witness: Enter has inserted a text that is shorter than the buffer was.
CommitTrimsProbesInsertsWitness ==
    /\ EpisodeIs("inserted")
    /\ key = SpecialKey("Enter")
    /\ selected # None
    /\ selected[1] < Len(paths)
    /\ Len(paths[selected[1] + 1]) < Len(episode[1].raw)

\* C8: right after Esc ends an insert mode, list and selection are what they
\* were when the mode was entered, the mode is Normal and the loop goes on.
CancelRestores ==
    EpisodeIs("cancelled")
        => /\ paths = episode[1].paths
           /\ selected = episode[1].selected
           /\ input_mode = "Normal"
           /\ pc = "loop"

\* C8 witness: Esc has ended an episode in which the buffer was edited, on a
\* non-empty list.
CancelRestoresWitness ==
    /\ EpisodeIs("cancelled")
    /\ episode[1].edited
    /\ key = SpecialKey("Esc")
    /\ paths # <<>>

\* C9: in an insert mode no key makes run_app return its list: a character
\* key, 'q' and Ctrl-C included, is appended to the buffer and the mode kept,
\* and the mode becomes Normal only by Esc or Enter, with the loop going on;
\* so the list is returned only from Normal mode.
QuitOnlyFromNormal ==
    [][/\ InLoop(InsertModes)
          => /\ ~(res' # None /\ res'[1].tag = "Ok")
             /\ key'.code = "Char"
                   => /\ input' = Append(input, key'.ch)
                      /\ input_mode' = input_mode
                      /\ pc' = "loop"
             /\ (input_mode' = "Normal" /\ pc' = "loop")
                   => key' \in {SpecialKey("Esc"), SpecialKey("Enter")}
             /\ key' \in {SpecialKey("Esc"), SpecialKey("Enter")} => pc' = "loop"
       /\ (res = None /\ res' # None /\ res'[1].tag = "Ok")
          => (input_mode = "Normal" /\ IsQuitKey(key'))]_vars

\* C9 witness: Ctrl-C has been pressed in an insert mode and the loop goes on
\* with a "c" at the end of the buffer.
QuitOnlyFromNormalWitness ==
    /\ pc = "loop"
    /\ input_mode \in InsertModes
    /\ key = CtrlChar("c")
    /\ input # <<>>
    /\ input[Len(input)] = "c"

FishDetected ==
    /\ shell_env # None
    /\ shell_env[1] # None
    /\ shell_env[1][1] # <<>>
    /\ shell_env[1][1][Len(shell_env[1][1])] = "fish"

\* C10 as stated: for fish the command is "set -x PATH " and the entries in
\* order separated by single spaces.
FishCommandSpaceSeparated ==
    (pc = "done" /\ output # None /\ FishDetected)
        => output = Some(SetPrefix \o Separated(res[1].paths, " "))

\* C10 as amended: for fish the command is "set -x PATH " and the entries in
\* order joined by the path-list separator ':', unquoted.
FishCommandColonJoined ==
    (pc = "done" /\ output # None /\ FishDetected)
        => output = Some(SetPrefix \o Separated(res[1].paths, ":"))

\* C10 witness: the command for a list of two or more entries has been
\* printed with fish as the final component of SHELL.
FishCommandColonJoinedWitness ==
    /\ pc = "done"
    /\ output # None
    /\ FishDetected
    /\ Len(res[1].paths) >= 2

\* C11: when the final component of SHELL is not fish (SHELL unset, without a
\* final component, or naming bash, zsh or any other shell), the command
\* printed is exactly export PATH="<joined>", the entries in order joined by
\* the path-list separator ':'.
PosixCommandExported ==
    (pc = "done" /\ output # None /\ ~FishDetected)
        => output = Some(ExportPrefix \o Separated(res[1].paths, ":") \o <<"\"">>)

\* C11 witness: the command for a list of two or more entries has been
\* printed with SHELL naming sh below a directory called fish.
PosixCommandExportedWitness ==
    /\ pc = "done"
    /\ output # None
    /\ shell_env = Some(Some(<<"opt", "fish", "bin", "sh">>))
    /\ Len(res[1].paths) >= 2

\* some entry of ps holds the path-list separator
HoldsSeparator(ps) ==
    \E i \in 1..Len(ps) : \E j \in 1..Len(ps[i]) : ps[i][j] = ":"

\* C12: when the list run_app returned has an entry holding the path-list
\* separator ':', nothing is ever written to standard output, and the process
\* does not end with status 0: the generation of the command fails.
JoinErrorFails ==
    (res # None /\ res[1].tag = "Ok" /\ HoldsSeparator(res[1].paths))
        => /\ output = None
           /\ ExitCode # Some(0)

\* C12 witness: the terminal was restored, the command was to be generated
\* for a list with an entry holding ':', and the process ended by the panic of
\* the `expect` of line 333.
JoinErrorFailsWitness ==
    /\ pc = "panicked"
    /\ res # None
    /\ res[1].tag = "Ok"
    /\ HoldsSeparator(res[1].paths)
    /\ ExitCode = Some(101)
    /\ output = None

\* C13: whenever the process has ended (main returned Ok(()), main returned
\* an error, or a thread panicked), raw mode is disabled and the alternate
\* screen has been left.
TerminalRestoredAtExit ==
    ExitCode # None => terminal = [raw |-> FALSE, alt |-> FALSE]

\* C14 as stated: the loop is left only by a quit key (q, Esc, Ctrl-C) read
\* in Normal mode, and run_app then returns the list as it is at that key.
LoopExitsOnlyByQuit ==
    [][(pc = "loop" /\ pc' # "loop")
          => /\ input_mode = "Normal"
             /\ IsQuitKey(key')
             /\ res' = Some([tag |-> "Ok", paths |-> paths])]_vars

\* C14 as amended: run_app returns either by a quit key (q, Esc, Ctrl-C) read
\* in Normal mode, and then it returns the list as it is at that key, or by
\* an I/O error of draw, poll or read, and then it returns the error and no
\* list.
LoopReturnsByQuitOrIoError ==
    [][(res = None /\ res' # None)
          => /\ pc = "loop"
             /\ pc' = "returned"
             /\ \/ /\ InLoop({"Normal"})
                   /\ IsQuitKey(key')
                   /\ res' = Some([tag |-> "Ok", paths |-> paths])
                \/ /\ key' = NoKey("IoError")
                   /\ res'[1].tag = "Err"]_vars

\* C14 witness: a quit key has made run_app return a list of two or more
\* entries, one of them typed in this session.
LoopReturnsByQuitOrIoErrorWitness ==
    /\ pc = "returned"
    /\ IsQuitKey(key)
    /\ res # None
    /\ res[1].tag = "Ok"
    /\ Len(res[1].paths) >= 2
    /\ \E i \in 1..Len(res[1].paths) : res[1].paths[i] = <<"q">>

\* C15: while the loop runs the mode is one of Normal, InsertAfter and
\* InsertBefore, and in Normal mode the buffer is empty; the loop starts in
\* Normal mode; and a step from Normal mode into an insert mode is made by
\* 'a' or 'b' and leaves the buffer empty, whatever was typed before.
BufferLifecycle ==
    /\ [](pc = "loop"
            => /\ input_mode \in {"Normal"} \cup InsertModes
               /\ input_mode = "Normal" => input = <<>>)
    /\ [][(pc # "loop" /\ pc' = "loop") => input_mode' = "Normal"]_vars
    /\ [][(pc = "loop" /\ input_mode = "Normal" /\ input_mode' \in InsertModes)
             => /\ key' \in {KeyChar("a"), KeyChar("b")}
                /\ input' = <<>>]_vars

\* C15 witness: an insert mode has just been entered with an empty buffer,
\* after an earlier episode in which an entry was typed and inserted.
BufferLifecycleWitness ==
    /\ pc = "loop"
    /\ input_mode \in InsertModes
    /\ key \in {KeyChar("a"), KeyChar("b")}
    /\ input = <<>>
    /\ \E i \in 1..Len(paths) : paths[i] = <<"q">>

\* C16: in an insert mode a character key appends exactly its character to
\* the buffer, and Backspace removes exactly the last character of the buffer
\* and changes nothing when the buffer is empty; both leave the mode (side
\* included), the list and the selection as they are, and the loop going.
BufferEditing ==
    [][InLoop(InsertModes)
          => /\ key'.code = "Char"
                   => /\ Len(input') = Len(input) + 1
                      /\ SubSeq(input', 1, Len(input)) = input
                      /\ input'[Len(input')] = key'.ch
             /\ key' = SpecialKey("Backspace")
                   => IF input = <<>>
                      THEN input' = <<>>
                      ELSE /\ Len(input') = Len(input) - 1
                           /\ input' = SubSeq(input, 1, Len(input) - 1)
             /\ (key'.code = "Char" \/ key' = SpecialKey("Backspace"))
                   => /\ input_mode' = input_mode
                      /\ paths' = paths
                      /\ selected' = selected
                      /\ pc' = "loop"]_vars

\* C16 witness: Backspace has taken the second of two typed characters off
\* the buffer.
BufferEditingWitness ==
    /\ pc = "loop"
    /\ input_mode \in InsertModes
    /\ key = SpecialKey("Backspace")
    /\ Len(input) = MaxBuf - 1
    /\ episode # None
    /\ episode[1].edited

\* C17: an event is polled only after terminal.draw was called, in that
\* iteration, with the list, selection, mode and buffer as they then are;
\* an iteration that does not leave the loop, a key or none, goes back to
\* the draw; and an iteration without a key changes none of the four.
RedrawCadence ==
    /\ []((pc = "loop" /\ loop_at = "poll") => rendered = Some(Frame))
    /\ [][(pc = "loop" /\ loop_at = "poll" /\ pc' = "loop")
             => /\ loop_at' = "draw"
                /\ rendered' = None]_vars
    /\ [][(pc = "loop" /\ loop_at = "draw" /\ pc' = "loop")
             => /\ loop_at' = "poll"
                /\ rendered' = Some(Frame)
                /\ UNCHANGED <<paths, selected, input_mode, input>>]_vars
    /\ [][(pc = "loop" /\ loop_at = "poll" /\ key' = NoKey("NoKey"))
             => /\ UNCHANGED <<paths, selected, input_mode, input>>
                /\ pc' = "loop"]_vars

\* C17 witness: after an iteration without a key, in an insert mode with
\* text in the buffer, the frame has been drawn again from that state and the
\* loop is about to poll.
RedrawCadenceWitness ==
    /\ pc = "loop"
    /\ loop_at = "poll"
    /\ key = NoKey("NoKey")
    /\ input_mode \in InsertModes
    /\ input # <<>>
    /\ rendered = Some(Frame)

\* C18: the loop never panics: the process is never ended by a panic raised
\* before run_app has returned (the removal of 'd' at an index not below the
\* length, the `paths.len() - 1` of Down on an empty list).
LoopNeverPanics ==
    ~(pc = "panicked" /\ res = None)

\* C19: while the loop runs, a step that changes the list is either 'd' in
\* Normal mode with a selection, taking out exactly the selected entry, or
\* Enter in an insert mode with the trimmed buffer naming an existing path,
\* putting in exactly that path; in both the other entries keep their values
\* and order.  Every other step (a move, 'a', 'b', an unbound key, no key, a
\* buffer edit, Esc, Enter with a failed probe, a draw) leaves the list as
\* it is.
ListChangesOnlyByDeleteOrCommit ==
    [][(pc = "loop" /\ pc' \in {"loop", "panicked"} /\ paths' # paths)
          => \/ /\ DeleteStep
                /\ selected # None
                /\ Len(paths') = Len(paths) - 1
                /\ RemovedAt(paths, paths', selected[1])
             \/ /\ EnterStep
                /\ Len(paths') = Len(paths) + 1
                /\ \E t \in ExistingPaths :
                      /\ IsTrimOf(t, input)
                      /\ \E at \in 0..Len(paths) : InsertedAt(paths, paths', at, t)]_vars

\* C19 witness: 'd' has taken the first of the two entries read from PATH
\* out of the list, leaving the second.
ListChangesOnlyByDeleteOrCommitWitness ==
    /\ pc = "loop"
    /\ key = KeyChar("d")
    /\ paths = <<B>>
    /\ selected = Some(0)

\* C20: at most one line is ever written to standard output, and once it is
\* written run_app has returned a list, raw mode is disabled, the alternate
\* screen is left and main is at its end; when run_app returned an error
\* nothing is written to standard output, and main ends having written the
\* error to standard error.
CommandOnceAfterTeardown ==
    /\ Len(output) <= 1
    /\ output # None
          => /\ pc = "done"
             /\ terminal = [raw |-> FALSE, alt |-> FALSE]
             /\ res # None
             /\ res[1].tag = "Ok"
             /\ stderr = <<>>
    /\ (res # None /\ res[1].tag = "Err")
          => /\ output = None
             /\ pc = "done" => stderr = <<"Error">>

\* C20 witness: main has ended having printed the one command for a list
\* that lost an entry, with the terminal restored and nothing on standard
\* error.
CommandOnceAfterTeardownWitness ==
    /\ pc = "done"
    /\ Len(output) = 1
    /\ terminal = [raw |-> FALSE, alt |-> FALSE]
    /\ stderr = <<>>
    /\ res[1].paths = <<B>>

====
